---- MODULE Spec2Model ----
(***************************************************************************)
(* Model of src/src/App.jsx: the App component of the AI Frontend          *)
(* Generator.  The React state of the component, the browser's             *)
(* localStorage entry 'ai-frontend-chats', the location hash, the pending  *)
(* fetch requests and the pending setTimeout callbacks are the state; one  *)
(* action per event handler, effect or asynchronous continuation.          *)
(*                                                                         *)
(* Text is modelled as a sequence of tokens (strings): a prompt is a       *)
(* sequence of one-character tokens, generated code a sequence of lexical  *)
(* tokens.  The empty sequence is the empty string ''.                     *)
(*                                                                         *)
(* Spec is the session: startup, prompts, generation rounds, chats.        *)
(* FairSpec adds that a pending error timer fires.  ShareSpec is the       *)
(* copy and share buttons and the page opened through a share link.        *)
(***************************************************************************)
EXTENDS Naturals, Sequences, FiniteSets, TLC

\* ------------------------------------------------------------------ bounds
\* Number of requests sent to the remote endpoint in one behaviour.
MaxRequests == 2
\* toasts whose timers are pending at once
MaxToasts == 2
\* pieces of a shared text
MaxShareLen == 2

\* -------------------------------------------------------- program constants
\* prompt.length > 30 ? prompt.substring(0, 30) + '...' : prompt
TitleLimit == 30
\* hash.substring(8): the length of '#/share/'
SharePrefixLen == 8

\* ------------------------------------------------------------ text helpers
WS == {" ", "\n"}
Langs == {"jsx", "javascript", "js", "html", "css", "vue"}
\* the markdown code fence (three backquotes), written as one token
Fence == "<fence>"

RECURSIVE DropWs(_)
\* \s* : the whitespace tokens at the front of s are consumed
DropWs(s) == IF s # <<>> /\ Head(s) \in WS THEN DropWs(Tail(s)) ELSE s

\* (jsx|javascript|js|html|css|vue|) : an optional language tag
DropLang(s) == IF s # <<>> /\ Head(s) \in Langs THEN Tail(s) ELSE s

RECURSIVE StripFences(_)
\* code.replace(/<fence>(jsx|javascript|js|html|css|vue|)\s*|<fence>/g, '')
StripFences(s) ==
  IF s = <<>> THEN <<>>
  ELSE IF Head(s) = Fence THEN StripFences(DropWs(DropLang(Tail(s))))
  ELSE <<Head(s)>> \o StripFences(Tail(s))

RECURSIVE DropWsEnd(_)
DropWsEnd(s) ==
  IF s # <<>> /\ s[Len(s)] \in WS THEN DropWsEnd(SubSeq(s, 1, Len(s) - 1)) ELSE s

\* String.prototype.trim
Trim(s) == DropWsEnd(DropWs(s))

\* const cleanedCode = code.replace(...).trim()
CleanCode(code) == Trim(StripFences(code))

\* framework.toUpperCase()
Upper(fw) == CASE fw = "html" -> "HTML" [] fw = "react" -> "REACT" [] fw = "vue" -> "VUE"

\* the texts shown in the code pane when there is no generated code
DefaultCode == <<"//", " Your generated code will appear here...">>
GeneratingCode(fw) == <<"//", " Generating ", Upper(fw), " code, please wait...">>
NewChatCode == <<"//", " Start a new chat by typing a prompt or choosing an example.">>
EmptyChatCode == <<"//", " This chat is empty.">>
ErrorCode(msg) == <<"//", " Error: ">> \o msg

\* generatedCode.startsWith('//')
StartsWithSlashes(s) == s # <<>> /\ Head(s) = "//"

RECURSIVE BeforeBody(_)
\* err.message.split('Body:')[0]
BeforeBody(s) ==
  IF s = <<>> THEN <<>>
  ELSE IF Head(s) = "Body:" THEN <<>>
  ELSE <<Head(s)>> \o BeforeBody(Tail(s))

\* ------------------------------------------------------- JSON (de)serialising
\* JSON text is a token sequence: the punctuation [ ] { }, the member names
\* ("id:" is the name with its colon) and, for a string, a quote token, the
\* escaped content and a quote token.
Quote == "\""
Backslash == "\\"

RECURSIVE Escape(_)
\* JSON.stringify of a string escapes the quote and the backslash
Escape(t) ==
  IF t = <<>> THEN <<>>
  ELSE IF Head(t) \in {Quote, Backslash} THEN <<Backslash, Head(t)>> \o Escape(Tail(t))
  ELSE <<Head(t)>> \o Escape(Tail(t))

StringifyString(t) == <<Quote>> \o Escape(t) \o <<Quote>>

StringifyMessage(m) ==
  <<"{", "role:">> \o StringifyString(<<m.role>>)
    \o <<"content:">> \o StringifyString(m.content) \o <<"}">>

RECURSIVE StringifyMessages(_)
StringifyMessages(h) ==
  IF h = <<>> THEN <<>> ELSE StringifyMessage(Head(h)) \o StringifyMessages(Tail(h))

StringifyChat(c) ==
  <<"{", "id:">> \o StringifyString(<<c.id>>)
    \o <<"title:">> \o StringifyString(c.title)
    \o <<"history:", "[">> \o StringifyMessages(c.history) \o <<"]", "}">>

RECURSIVE StringifyChats(_)
StringifyChats(cs) ==
  IF cs = <<>> THEN <<>> ELSE StringifyChat(Head(cs)) \o StringifyChats(Tail(cs))

\* JSON.stringify(chats)
Stringify(cs) == <<"[">> \o StringifyChats(cs) \o <<"]">>

\* a parse step yields the value read and the tokens left, or fails
ParseFail == [ok |-> FALSE, val |-> <<>>, rest |-> <<>>]
ParseOk(v, r) == [ok |-> TRUE, val |-> v, rest |-> r]

Expect(s, tok) == s # <<>> /\ Head(s) = tok

RECURSIVE ReadString(_, _)
ReadString(s, acc) ==
  IF s = <<>> THEN ParseFail
  ELSE IF Head(s) = Quote THEN ParseOk(acc, Tail(s))
  ELSE IF Head(s) = Backslash
    THEN IF Len(s) < 2 THEN ParseFail
         ELSE ReadString(Tail(Tail(s)), Append(acc, s[2]))
  ELSE ReadString(Tail(s), Append(acc, Head(s)))

ParseString(s) == IF Expect(s, Quote) THEN ReadString(Tail(s), <<>>) ELSE ParseFail

\* a member: its name, then a string
ParseMember(s, name) == IF Expect(s, name) THEN ParseString(Tail(s)) ELSE ParseFail

ParseMessage(s) ==
  IF ~Expect(s, "{") THEN ParseFail
  ELSE LET r == ParseMember(Tail(s), "role:") IN
    IF ~r.ok \/ Len(r.val) # 1 THEN ParseFail
    ELSE LET c == ParseMember(r.rest, "content:") IN
      IF ~c.ok \/ ~Expect(c.rest, "}") THEN ParseFail
      ELSE ParseOk([role |-> r.val[1], content |-> c.val], Tail(c.rest))

RECURSIVE ParseMessages(_, _)
ParseMessages(s, acc) ==
  IF s = <<>> THEN ParseFail
  ELSE IF Head(s) = "]" THEN ParseOk(acc, Tail(s))
  ELSE LET m == ParseMessage(s) IN
    IF ~m.ok THEN ParseFail ELSE ParseMessages(m.rest, Append(acc, m.val))

ParseChat(s) ==
  IF ~Expect(s, "{") THEN ParseFail
  ELSE LET i == ParseMember(Tail(s), "id:") IN
    IF ~i.ok \/ Len(i.val) # 1 THEN ParseFail
    ELSE LET t == ParseMember(i.rest, "title:") IN
      IF ~t.ok \/ ~Expect(t.rest, "history:") \/ ~Expect(Tail(t.rest), "[") THEN ParseFail
      ELSE LET h == ParseMessages(Tail(Tail(t.rest)), <<>>) IN
        IF ~h.ok \/ ~Expect(h.rest, "}") THEN ParseFail
        ELSE ParseOk([id |-> i.val[1], title |-> t.val, history |-> h.val], Tail(h.rest))

RECURSIVE ParseChatList(_, _)
ParseChatList(s, acc) ==
  IF s = <<>> THEN ParseFail
  ELSE IF Head(s) = "]" THEN ParseOk(acc, Tail(s))
  ELSE LET c == ParseChat(s) IN
    IF ~c.ok THEN ParseFail ELSE ParseChatList(c.rest, Append(acc, c.val))

\* the JSON literals that are not arrays
Scalars == {"null", "0", "true"}

\* JSON.parse(savedChats): kind "array" with the chats read, kind "other" for a
\* JSON value that is no array, kind "error" when JSON.parse throws SyntaxError
ParseJSON(s) ==
  IF Len(s) = 1 /\ s[1] \in Scalars THEN [kind |-> "other", val |-> <<>>]
  ELSE IF ~Expect(s, "[") THEN [kind |-> "error", val |-> <<>>]
  ELSE LET r == ParseChatList(Tail(s), <<>>) IN
    IF r.ok /\ r.rest = <<>> THEN [kind |-> "array", val |-> r.val]
    ELSE [kind |-> "error", val |-> <<>>]

\* ------------------------------------------------------------ share codec
\* lz-string's compressToEncodedURIComponent / decompressFromEncodedURIComponent
\* are modelled as a token-wise substitution into URL-safe characters; an
\* input holding anything else, or nothing, does not decompress (null).
CodeBook ==
  <<  <<"<h1>", "a">>, <<"Hi", "b">>, <<"</h1>", "c">>, <<"<p", "d">>,
      <<Quote, "e">>, <<">", "f">>, <<" ", "g">>, <<"\n", "h">>,
      <<Fence, "i">>, <<"html", "j">>, <<"//", "k">>, <<"x", "l">> >>

Plain == {CodeBook[i][1] : i \in DOMAIN CodeBook}
Coded == {CodeBook[i][2] : i \in DOMAIN CodeBook}
EncTok(t) == LET i == CHOOSE j \in DOMAIN CodeBook : CodeBook[j][1] = t IN CodeBook[i][2]
DecTok(c) == LET i == CHOOSE j \in DOMAIN CodeBook : CodeBook[j][2] = c IN CodeBook[i][1]

compressToEncodedURIComponent(t) == [i \in 1..Len(t) |-> EncTok(t[i])]

decompressFromEncodedURIComponent(s) ==
  IF s = <<>> \/ \E i \in 1..Len(s) : s[i] \notin Coded THEN <<>>
  ELSE [i \in 1..Len(s) |-> DecTok(s[i])]

\* ------------------------------------------------------------- the inputs
SharePrefix == <<"#", "/", "s", "h", "a", "r", "e", "/">>
\* hash.startsWith('#/share/')
IsShareHash(h) == Len(h) >= SharePrefixLen /\ SubSeq(h, 1, SharePrefixLen) = SharePrefix
\* hash.substring(8)
ShareToken(h) == SubSeq(h, SharePrefixLen + 1, Len(h))

NoHash == <<>>
\* the texts a share link is made of: up to MaxShareLen pieces, among them
\* markup, a quote, a line break and the '//' of a comment
SharePieces == {"<p", ">", Quote, "\n", "//", "x"}
ShareTexts == UNION {[1..n -> SharePieces] : n \in 1..MaxShareLen}
SharedText == <<"<p", ">", "x">>
GoodShareHash == SharePrefix \o compressToEncodedURIComponent(SharedText)
BadShareHash == SharePrefix \o <<"%", "%">>
Hashes == {NoHash, GoodShareHash, BadShareHash}

\* promptTemplates[k].prompt, cut into two tokens after its 30th character

\* promptTemplates[0]: 'Hero Section'
Template1Head == "A modern, professional hero se"
Template1Rest ==
  "ction for a SaaS product named \"CodeGenius\". It should have a catchy title, a short descriptive paragraph, and two buttons: \"Get Started for Free\" and \"View Pricing\"."
Template1 == <<Template1Head, Template1Rest>>

\* promptTemplates[1]: 'Login Form'
Template2Head == "A clean and simple login form "
Template2Rest ==
  "with fields for \"Email\" and \"Password\", a \"Remember me\" checkbox, a \"Sign In\" button, and a \"Forgot your password?\" link."
Template2 == <<Template2Head, Template2Rest>>

\* promptTemplates[2]: 'Pricing Page'
Template3Head == "A pricing page with three tier"
Template3Rest ==
  "s: \"Basic\", \"Pro\", and \"Enterprise\". Each tier should have a title, a price, a short list of key features, and a \"Sign Up\" button. The \"Pro\" tier should be highlighted as the most popular."
Template3 == <<Template3Head, Template3Rest>>

\* promptTemplates[3]: 'Contact Form'
Template4Head == "A contact form with fields for"
Template4Rest ==
  " \"Full Name\", \"Email Address\", \"Subject\", and \"Message\". Include a \"Send Message\" submit button."
Template4 == <<Template4Head, Template4Rest>>

promptTemplates == <<Template1, Template2, Template3, Template4>>

\* The number of characters of a token of a prompt: an example prompt is cut
\* into a token of 30 characters and a token holding the rest; every other
\* token of a prompt is one character.
TokenLen(t) ==
  CASE t \in {Template1Head, Template2Head, Template3Head, Template4Head} -> 30
    [] t = Template1Rest -> 166
    [] t = Template2Rest -> 121
    [] t = Template3Rest -> 188
    [] t = Template4Rest -> 96
    [] OTHER -> 1

RECURSIVE CharLen(_)
\* prompt.length
CharLen(p) == IF p = <<>> THEN 0 ELSE TokenLen(Head(p)) + CharLen(Tail(p))

RECURSIVE Substring0(_, _)
\* prompt.substring(0, n), for n at the end of a token
Substring0(p, n) ==
  IF p = <<>> \/ TokenLen(Head(p)) > n THEN <<>>
  ELSE <<Head(p)>> \o Substring0(Tail(p), n - TokenLen(Head(p)))

\* as TitleOf, cutting a prompt of exactly 30 characters too
TitleOfCuttingAtLimit(p) ==
  IF CharLen(p) >= TitleLimit THEN Substring0(p, TitleLimit) \o <<"...">> ELSE p

\* title: prompt.length > 30 ? prompt.substring(0, 30) + '...' : prompt
TitleOf(p) ==
  IF CharLen(p) > TitleLimit THEN Substring0(p, TitleLimit) \o <<"...">> ELSE p
\* the example buttons the user picks among (indices into promptTemplates)
ExampleChoices == {1}

\* the prompts typed into the textarea: empty, short, exactly 30 characters
TypedPrompt == <<"H", "i">>
ThirtyPrompt == <<Template4Head>>
Prompts == {<<>>, TypedPrompt, ThirtyPrompt}

\* the options of the framework select; 'vue' is handled exactly as 'react'
Frameworks == {"html", "react"}
\* systemPrompts[framework]
systemPrompts(fw) == <<"system prompt for ", fw>>

\* what the remote endpoint may answer
FencedAnswer == <<Fence, "html", "\n", "<h1>", "Hi", "</h1>", "\n", Fence>>
PaddedAnswer == <<" ", "<p", Quote, ">", "\n">>
Answers == {FencedAnswer, PaddedAnswer}
Outcomes ==
  {[kind |-> "network", status |-> "", body |-> <<>>],
   [kind |-> "status", status |-> "500", body |-> <<"rate limited">>],
   [kind |-> "ok", status |-> "200", body |-> <<>>]}
  \cup {[kind |-> "ok", status |-> "200", body |-> a] : a \in Answers}

\* Error.message of what the try block of handleGenerateClick throws
ErrorMessage(out) ==
  CASE out.kind = "network" -> <<"Failed to fetch">>
    [] out.kind = "status" ->
         <<"API request failed with status: ", out.status, ". ", "Body:", " ">> \o out.body
    [] OTHER -> <<"Received an empty or invalid response from the API.">>

\* ids: uuidv4() hands out Ids[nextId]; StoredId is the id of a chat of an
\* earlier visit
Ids == [n \in 1..(MaxRequests + 1) |-> <<"c1", "c2", "c3", "c4", "c5", "c6">>[n]]
StoredId == "c0"
NullId == ""
Null == <<>>

Message(r, c) == [role |-> r, content |-> c]
StoredChat ==
  [id |-> StoredId, title |-> <<"o", "l", "d">>,
   history |-> <<Message("user", <<"o", "l", "d">>), Message("assistant", <<"x">>),
                 Message("user", <<"H", "i">>), Message("assistant", <<"<p", ">", "x">>)>>]

\* what localStorage may hold under 'ai-frontend-chats' when the page is first
\* opened: nothing, text that is no JSON, JSON that is no array, saved chats
Unparseable == <<"[", "{">>
InitialStorage ==
  {<<>>, Unparseable, <<"null">>, Stringify(<<>>), Stringify(<<StoredChat>>)}

\* ------------------------------------------------------------------ state
VARIABLES
  phase,          \* "boot": rendered, mount effects not yet run; "run"; "crashed"
  hash,           \* window.location.hash
  storage,        \* localStorage['ai-frontend-chats'] (<<>>: no entry)
  apiKey,         \* whether import.meta.env.VITE_OPENROUTER_API_KEY is set
  prompt, generatedCode, isLoading, error, showToast, toastMessage,
  chats, activeChatId, framework,     \* the useState cells of App
  srcdoc,         \* iframeRef.current.srcdoc
  inflight,       \* the fetch calls not yet settled, with what their handler captured
  errTimers,      \* whether some setTimeout(() => setError(null), 3000) is pending
  toastTimers,    \* pending setTimeout(() => setShowToast(false), 2000)
  clipboard,      \* the text last written by navigator.clipboard.writeText
  shared,         \* history: the code shown when the share link was last copied
  nextId,         \* index of the id the next uuidv4() returns
  requests,       \* fetch calls made so far
  okRounds        \* history: per chat on the list, the rounds appended to it

vars ==
  <<phase, hash, storage, apiKey, prompt, generatedCode, isLoading, error,
    showToast, toastMessage, chats, activeChatId, framework, srcdoc, inflight,
    errTimers, toastTimers, clipboard, shared, nextId, requests, okRounds>>

IdSet == {Ids[i] : i \in DOMAIN Ids} \cup {StoredId}

\* chats.find(c => c.id === id) !== undefined
HasChat(cs, id) == \E i \in DOMAIN cs : cs[i].id = id
\* chats.find(c => c.id === id): the first chat with that id
FindChat(cs, id) == cs[CHOOSE i \in DOMAIN cs : cs[i].id = id /\ \A j \in 1..(i - 1) : cs[j].id # id]

\* as LastAssistantIndex, searching the history in its own order
FirstAssistantIndex(h) ==
  CHOOSE i \in DOMAIN h : h[i].role = "assistant" /\ \A j \in 1..(i - 1) : h[j].role # "assistant"

\* the position [...history].reverse().find(m => m.role === 'assistant') stops at
LastAssistantIndex(h) ==
  CHOOSE i \in DOMAIN h : h[i].role = "assistant" /\ \A j \in (i + 1)..Len(h) : h[j].role # "assistant"
HasAssistant(h) == \E i \in DOMAIN h : h[i].role = "assistant"
\* lastAssistantMessage ? lastAssistantMessage.content : '// This chat is empty.'
CodeOfChat(c) ==
  IF HasAssistant(c.history) THEN c.history[LastAssistantIndex(c.history)].content
  ELSE EmptyChatCode

\* useEffect(..., [chats]): runs after a render in which chats was replaced
PersistEffect(old, cs) == IF Len(cs) > 0 THEN Stringify(cs) ELSE old

\* useEffect(..., [generatedCode, framework])
PreviewUnavailable == <<"<div>", "Live preview is only available for HTML.", "</div>">>
Preview(code, fw) == IF fw = "html" THEN code ELSE PreviewUnavailable
\* as PreviewEffect, with [generatedCode] as the dependencies of the effect
PreviewEffectOnCodeOnly ==
  srcdoc' = IF generatedCode' # generatedCode
              THEN Preview(generatedCode', framework') ELSE srcdoc

PreviewEffect ==
  srcdoc' = IF generatedCode' # generatedCode \/ framework' # framework
              THEN Preview(generatedCode', framework') ELSE srcdoc

\* the state of a freshly constructed App (the useState initial values)
Fresh ==
  /\ prompt = <<>>
  /\ generatedCode = DefaultCode
  /\ isLoading = FALSE
  /\ error = Null
  /\ showToast = FALSE
  /\ toastMessage = <<>>
  /\ chats = <<>>
  /\ activeChatId = NullId
  /\ framework = "html"
  /\ srcdoc = <<>>
  /\ inflight = <<>>
  /\ errTimers = FALSE
  /\ toastTimers = 0

Init ==
  /\ phase = "boot"
  /\ hash \in Hashes
  /\ storage \in InitialStorage
  /\ apiKey \in BOOLEAN
  /\ Fresh
  /\ clipboard = <<>>
  /\ shared = <<>>
  /\ nextId = 1
  /\ requests = 0
  /\ okRounds = [i \in IdSet |-> 0]

\* ---------------------------------------------------------------- startup
\* as StartupShare, reading the saved chats as well
StartupShareThenLoad ==
  /\ phase = "boot"
  /\ IsShareHash(hash)
  /\ LET decompressedCode == decompressFromEncodedURIComponent(ShareToken(hash)) IN
       IF decompressedCode # <<>>
         THEN /\ generatedCode' = decompressedCode
              /\ toastMessage' = <<"Shared code loaded!">>
              /\ showToast' = TRUE
              /\ toastTimers' = toastTimers + 1
         ELSE UNCHANGED <<generatedCode, toastMessage, showToast, toastTimers>>
  /\ chats' = IF storage # <<>> /\ ParseJSON(storage).kind = "array"
                THEN ParseJSON(storage).val ELSE chats
  /\ phase' = "run"
  /\ srcdoc' = Preview(generatedCode', framework)
  /\ UNCHANGED <<hash, clipboard, shared, storage, apiKey, prompt, isLoading, error, activeChatId,
                 framework, inflight, errTimers, nextId, requests, okRounds>>

\* the mount effects with a '#/share/...' hash (lines 60-72): the saved chats
\* are not read
StartupShare ==
  /\ phase = "boot"
  /\ IsShareHash(hash)
  /\ LET decompressedCode == decompressFromEncodedURIComponent(ShareToken(hash)) IN
       IF decompressedCode # <<>>
         THEN /\ generatedCode' = decompressedCode
              /\ toastMessage' = <<"Shared code loaded!">>
              /\ showToast' = TRUE
              /\ toastTimers' = toastTimers + 1
         ELSE UNCHANGED <<generatedCode, toastMessage, showToast, toastTimers>>
  /\ phase' = "run"
  /\ srcdoc' = Preview(generatedCode', framework)
  /\ UNCHANGED <<hash, clipboard, shared, storage, apiKey, prompt, isLoading, error, chats, activeChatId,
                 framework, inflight, errTimers, nextId, requests, okRounds>>

\* the mount effects without a share hash (lines 73-76), when
\* localStorage.getItem returns nothing or JSON.parse returns an array
StartupLoad ==
  /\ phase = "boot"
  /\ ~IsShareHash(hash)
  /\ storage = <<>> \/ ParseJSON(storage).kind = "array"
  /\ chats' = IF storage # <<>> THEN ParseJSON(storage).val ELSE chats
  /\ storage' = IF storage # <<>> THEN PersistEffect(storage, chats') ELSE storage
  /\ phase' = "run"
  /\ srcdoc' = Preview(generatedCode, framework)
  /\ UNCHANGED <<hash, clipboard, shared, apiKey, prompt, generatedCode, isLoading, error, showToast,
                 toastMessage, activeChatId, framework, inflight, errTimers,
                 toastTimers, nextId, requests, okRounds>>

\* the mount effects without a share hash when JSON.parse(savedChats) throws,
\* or returns a value that is no array (the next render then throws at
\* chats.map): nothing catches it, so React unmounts the whole App
StartupCrash ==
  /\ phase = "boot"
  /\ ~IsShareHash(hash)
  /\ storage # <<>>
  /\ ParseJSON(storage).kind # "array"
  /\ phase' = "crashed"
  /\ UNCHANGED <<hash, clipboard, shared, storage, apiKey, prompt, generatedCode, isLoading, error,
                 showToast, toastMessage, chats, activeChatId, framework, srcdoc,
                 inflight, errTimers, toastTimers, nextId, requests, okRounds>>

\* ----------------------------------------------------------- plain inputs
\* textarea onChange (line 283); the textarea is disabled while loading
SetPrompt(p) ==
  /\ phase = "run"
  /\ ~isLoading
  /\ p # prompt
  /\ prompt' = p
  /\ UNCHANGED <<phase, hash, clipboard, shared, storage, apiKey, generatedCode, isLoading, error,
                 showToast, toastMessage, chats, activeChatId, framework, srcdoc,
                 inflight, errTimers, toastTimers, nextId, requests, okRounds>>

\* select onChange (line 268)
SetFramework(fw) ==
  /\ phase = "run"
  /\ fw # framework
  /\ framework' = fw
  /\ UNCHANGED <<phase, hash, clipboard, shared, storage, apiKey, prompt, generatedCode, isLoading,
                 error, showToast, toastMessage, chats, activeChatId, inflight,
                 errTimers, toastTimers, nextId, requests, okRounds>>
  /\ PreviewEffect

\* the callback of setTimeout(() => setError(null), 3000).  Every click on the
\* button with an empty prompt adds a timer and changes nothing else, so any
\* number of them may be pending: after one fires, more may remain or not.
ErrTimerFire ==
  /\ phase = "run"
  /\ errTimers
  /\ errTimers' \in BOOLEAN
  /\ error' = Null
  /\ UNCHANGED <<phase, hash, clipboard, shared, storage, apiKey, prompt, generatedCode, isLoading,
                 showToast, toastMessage, chats, activeChatId, framework, srcdoc,
                 inflight, toastTimers, nextId, requests, okRounds>>

\* the callback of setTimeout(() => setShowToast(false), 2000)
ToastTimerFire ==
  /\ phase = "run"
  /\ toastTimers > 0
  /\ toastTimers' = toastTimers - 1
  /\ showToast' = FALSE
  /\ UNCHANGED <<phase, hash, clipboard, shared, storage, apiKey, prompt, generatedCode, isLoading,
                 error, toastMessage, chats, activeChatId, framework, srcdoc,
                 inflight, errTimers, nextId, requests, okRounds>>

\* ------------------------------------------------------------- generation
\* as GenerateEnabled, with the button never disabled
GenerateAlwaysEnabled == TRUE

\* <button id="generate-btn" ... disabled={isLoading}> (line 305)
GenerateEnabled == ~isLoading

\* handleGenerateClick, lines 95-98: no API key
GenerateNoKey ==
  /\ phase = "run"
  /\ GenerateEnabled
  /\ ~apiKey
  /\ error' = <<"API Key is not configured. The app must be deployed with an environment variable.">>
  /\ UNCHANGED <<phase, hash, clipboard, shared, storage, apiKey, prompt, generatedCode, isLoading,
                 showToast, toastMessage, chats, activeChatId, framework, srcdoc,
                 inflight, errTimers, toastTimers, nextId, requests, okRounds>>

\* as GenerateEmptyPrompt, without the setTimeout of line 101
GenerateEmptyPromptWithoutTimer ==
  /\ phase = "run"
  /\ GenerateEnabled
  /\ apiKey
  /\ prompt = <<>>
  /\ error' = <<"Please enter a prompt!">>
  /\ UNCHANGED <<phase, hash, clipboard, shared, storage, apiKey, prompt, generatedCode, isLoading,
                 showToast, toastMessage, chats, activeChatId, framework, srcdoc,
                 inflight, errTimers, toastTimers, nextId, requests, okRounds>>

\* handleGenerateClick, lines 99-103: empty prompt
GenerateEmptyPrompt ==
  /\ phase = "run"
  /\ GenerateEnabled
  /\ apiKey
  /\ prompt = <<>>
  /\ error' = <<"Please enter a prompt!">>
  /\ errTimers' = TRUE
  /\ UNCHANGED <<phase, hash, clipboard, shared, storage, apiKey, prompt, generatedCode, isLoading,
                 showToast, toastMessage, chats, activeChatId, framework, srcdoc,
                 inflight, toastTimers, nextId, requests, okRounds>>

\* lines 116-120
NewChatFor(id, p) == [id |-> id, title |-> TitleOf(p), history |-> <<>>]

\* as PayloadMessages, sending the new user message without the history
PayloadWithoutHistory(req) ==
  <<Message("system", req.systemPrompt), req.history[Len(req.history)]>>

\* lines 132-135: payload.messages, of a request as kept in inflight
PayloadMessages(req) == <<Message("system", req.systemPrompt)>> \o req.history

\* handleGenerateClick, lines 105-147: up to the fetch call
GenerateStart ==
  /\ phase = "run"
  /\ GenerateEnabled
  /\ apiKey
  /\ prompt # <<>>
  /\ LET creating == activeChatId = NullId
         currentChatId == IF creating THEN Ids[nextId] ELSE activeChatId
         historyForApi ==
           IF ~creating /\ HasChat(chats, currentChatId)
             THEN FindChat(chats, currentChatId).history ELSE <<>>
         updatedHistoryForApi == Append(historyForApi, Message("user", prompt))
     IN
       /\ requests < MaxRequests
       /\ isLoading' = TRUE
       /\ generatedCode' = GeneratingCode(framework)
       /\ error' = Null
       /\ IF creating
            THEN /\ activeChatId' = currentChatId
                 /\ chats' = <<NewChatFor(currentChatId, prompt)>> \o chats
                 /\ storage' = PersistEffect(storage, chats')
                 /\ nextId' = nextId + 1
            ELSE UNCHANGED <<activeChatId, chats, storage, nextId>>
       /\ inflight' = Append(inflight,
            [chatId |-> currentChatId,              \* currentChatId
             history |-> updatedHistoryForApi,      \* updatedHistoryForApi
             systemPrompt |-> systemPrompts(framework)])
  /\ requests' = requests + 1
  /\ UNCHANGED <<phase, hash, clipboard, shared, apiKey, prompt, showToast, toastMessage, framework,
                 errTimers, toastTimers, okRounds>>
  /\ PreviewEffect

RemoveAt(q, i) == SubSeq(q, 1, i - 1) \o SubSeq(q, i + 1, Len(q))

\* as AppendRound, appending the answer alone to the history the chat has
AppendAssistantOnly(prevChats, currentChatId, updatedHistoryForApi, newAssistantMessage) ==
  [k \in DOMAIN prevChats |->
     IF prevChats[k].id = currentChatId
       THEN [prevChats[k] EXCEPT !.history = Append(@, newAssistantMessage)]
       ELSE prevChats[k]]

\* as AppendRound, writing to the chat that is active when the answer arrives
AppendRoundToActive(prevChats, currentChatId, updatedHistoryForApi, newAssistantMessage) ==
  [k \in DOMAIN prevChats |->
     IF prevChats[k].id = activeChatId
       THEN [prevChats[k] EXCEPT !.history = Append(updatedHistoryForApi, newAssistantMessage)]
       ELSE prevChats[k]]

\* lines 161-165: prevChats.map(chat => chat.id === currentChatId ? {...} : chat)
AppendRound(prevChats, currentChatId, updatedHistoryForApi, newAssistantMessage) ==
  [k \in DOMAIN prevChats |->
     IF prevChats[k].id = currentChatId
       THEN [prevChats[k] EXCEPT !.history = Append(updatedHistoryForApi, newAssistantMessage)]
       ELSE prevChats[k]]

\* the fetch settled and the response carries usable content (line 156)
IsSuccess(out) == out.kind = "ok" /\ out.body # <<>>

\* handleGenerateClick, lines 153-166 and 174: the continuation on success
ResolveOk(i, out) ==
  /\ phase = "run"
  /\ i \in DOMAIN inflight
  /\ IsSuccess(out)
  /\ LET req == inflight[i]
         cleanedCode == CleanCode(out.body)
     IN
       /\ generatedCode' = cleanedCode
       /\ chats' = AppendRound(chats, req.chatId, req.history, Message("assistant", cleanedCode))
       /\ storage' = PersistEffect(storage, chats')
       /\ okRounds' = IF HasChat(chats, req.chatId)
                         THEN [okRounds EXCEPT ![req.chatId] = @ + 1] ELSE okRounds
  /\ prompt' = <<>>
  /\ isLoading' = FALSE
  /\ inflight' = RemoveAt(inflight, i)
  /\ UNCHANGED <<phase, hash, clipboard, shared, apiKey, error, showToast, toastMessage, activeChatId,
                 framework, errTimers, toastTimers, nextId, requests>>
  /\ PreviewEffect

\* as ResolveFail, keeping the prompt of the failed round in the chat
ResolveFailRecordingPrompt(i, out) ==
  /\ phase = "run"
  /\ i \in DOMAIN inflight
  /\ ~IsSuccess(out)
  /\ error' = BeforeBody(ErrorMessage(out))
  /\ generatedCode' = ErrorCode(ErrorMessage(out))
  /\ isLoading' = FALSE
  /\ chats' = [k \in DOMAIN chats |->
                 IF chats[k].id = inflight[i].chatId
                   THEN [chats[k] EXCEPT !.history = inflight[i].history]
                   ELSE chats[k]]
  /\ storage' = PersistEffect(storage, chats')
  /\ inflight' = RemoveAt(inflight, i)
  /\ UNCHANGED <<phase, hash, clipboard, shared, apiKey, prompt, showToast, toastMessage,
                 activeChatId, framework, errTimers, toastTimers, nextId,
                 requests, okRounds>>
  /\ PreviewEffect

\* as ResolveFail, with setIsLoading(false) on the success path only
ResolveFailWithoutFinally(i, out) ==
  /\ phase = "run"
  /\ i \in DOMAIN inflight
  /\ ~IsSuccess(out)
  /\ error' = BeforeBody(ErrorMessage(out))
  /\ generatedCode' = ErrorCode(ErrorMessage(out))
  /\ inflight' = RemoveAt(inflight, i)
  /\ UNCHANGED <<phase, hash, clipboard, shared, storage, apiKey, prompt, isLoading, showToast,
                 toastMessage, chats, activeChatId, framework, errTimers,
                 toastTimers, nextId, requests, okRounds>>
  /\ PreviewEffect

\* handleGenerateClick, lines 148-151 and 167-175: fetch rejected, the status
\* is not 2xx, or the content is missing or empty
ResolveFail(i, out) ==
  /\ phase = "run"
  /\ i \in DOMAIN inflight
  /\ ~IsSuccess(out)
  /\ error' = BeforeBody(ErrorMessage(out))
  /\ generatedCode' = ErrorCode(ErrorMessage(out))
  /\ isLoading' = FALSE
  /\ inflight' = RemoveAt(inflight, i)
  /\ UNCHANGED <<phase, hash, clipboard, shared, storage, apiKey, prompt, showToast, toastMessage,
                 chats, activeChatId, framework, errTimers, toastTimers, nextId,
                 requests, okRounds>>
  /\ PreviewEffect

\* ---------------------------------------------------------- chat handling
\* handleNewChat (lines 178-182)
NewChat ==
  /\ phase = "run"
  /\ activeChatId' = NullId
  /\ prompt' = <<>>
  /\ generatedCode' = NewChatCode
  /\ UNCHANGED <<phase, hash, clipboard, shared, storage, apiKey, isLoading, error, showToast,
                 toastMessage, chats, framework, inflight, errTimers, toastTimers,
                 nextId, requests, okRounds>>
  /\ PreviewEffect

\* an example button: handleNewChat(); setPrompt(template.prompt) (line 292)
ExamplePrompt(t) ==
  /\ phase = "run"
  /\ activeChatId' = NullId
  /\ prompt' = promptTemplates[t]
  /\ generatedCode' = NewChatCode
  /\ UNCHANGED <<phase, hash, clipboard, shared, storage, apiKey, isLoading, error, showToast,
                 toastMessage, chats, framework, inflight, errTimers, toastTimers,
                 nextId, requests, okRounds>>
  /\ PreviewEffect

\* handleSelectChat (lines 184-191); the list items are the chats on screen
SelectChat(chatId) ==
  /\ phase = "run"
  /\ HasChat(chats, chatId)
  /\ LET chat == FindChat(chats, chatId) IN
       /\ activeChatId' = chat.id
       /\ generatedCode' = CodeOfChat(chat)
  /\ UNCHANGED <<phase, hash, clipboard, shared, storage, apiKey, prompt, isLoading, error, showToast,
                 toastMessage, chats, framework, inflight, errTimers, toastTimers,
                 nextId, requests, okRounds>>
  /\ PreviewEffect

\* chats.filter(c => c.id !== chatId)
WithoutChat(cs, chatId) == SelectSeq(cs, LAMBDA c : c.id # chatId)

\* as DeleteChat, without the call of handleNewChat
DeleteChatKeepingActive(chatId) ==
  /\ phase = "run"
  /\ HasChat(chats, chatId)
  /\ LET updatedChats == WithoutChat(chats, chatId) IN
       /\ chats' = updatedChats
       /\ storage' = PersistEffect(Stringify(updatedChats), updatedChats)
  /\ UNCHANGED <<activeChatId, prompt, generatedCode>>
  /\ okRounds' = [okRounds EXCEPT ![chatId] = 0]
  /\ UNCHANGED <<phase, hash, clipboard, shared, apiKey, isLoading, error, showToast, toastMessage,
                 framework, inflight, errTimers, toastTimers, nextId, requests>>
  /\ PreviewEffect

\* as DeleteChat, without its own localStorage.setItem
DeleteChatWithoutWrite(chatId) ==
  /\ phase = "run"
  /\ HasChat(chats, chatId)
  /\ LET updatedChats == WithoutChat(chats, chatId) IN
       /\ chats' = updatedChats
       /\ storage' = PersistEffect(storage, updatedChats)
  /\ IF activeChatId = chatId
       THEN /\ activeChatId' = NullId
            /\ prompt' = <<>>
            /\ generatedCode' = NewChatCode
       ELSE UNCHANGED <<activeChatId, prompt, generatedCode>>
  /\ okRounds' = [okRounds EXCEPT ![chatId] = 0]
  /\ UNCHANGED <<phase, hash, clipboard, shared, apiKey, isLoading, error, showToast, toastMessage,
                 framework, inflight, errTimers, toastTimers, nextId, requests>>
  /\ PreviewEffect

\* as DeleteChat, calling handleNewChat whichever chat is deleted
DeleteChatAlwaysResetting(chatId) ==
  /\ phase = "run"
  /\ HasChat(chats, chatId)
  /\ LET updatedChats == WithoutChat(chats, chatId) IN
       /\ chats' = updatedChats
       /\ storage' = PersistEffect(Stringify(updatedChats), updatedChats)
  /\ activeChatId' = NullId
  /\ prompt' = <<>>
  /\ generatedCode' = NewChatCode
  /\ okRounds' = [okRounds EXCEPT ![chatId] = 0]
  /\ UNCHANGED <<phase, hash, clipboard, shared, apiKey, isLoading, error, showToast, toastMessage,
                 framework, inflight, errTimers, toastTimers, nextId, requests>>
  /\ PreviewEffect

\* handleDeleteChat (lines 193-198)
DeleteChat(chatId) ==
  /\ phase = "run"
  /\ HasChat(chats, chatId)
  /\ LET updatedChats == WithoutChat(chats, chatId) IN
       /\ chats' = updatedChats
       /\ storage' = PersistEffect(Stringify(updatedChats), updatedChats)
  /\ IF activeChatId = chatId
       THEN /\ activeChatId' = NullId
            /\ prompt' = <<>>
            /\ generatedCode' = NewChatCode
       ELSE UNCHANGED <<activeChatId, prompt, generatedCode>>
  /\ okRounds' = [okRounds EXCEPT ![chatId] = 0]
  /\ UNCHANGED <<phase, hash, clipboard, shared, apiKey, isLoading, error, showToast, toastMessage,
                 framework, inflight, errTimers, toastTimers, nextId, requests>>
  /\ PreviewEffect

\* ---------------------------------------------------- copying and sharing
\* `${window.location.origin}${window.location.pathname}`
Origin == "https://app/"
\* shareUrl (line 217)
ShareUrl(code) == <<Origin>> \o SharePrefix \o compressToEncodedURIComponent(code)
IsShareUrl(text) == text # <<>> /\ Head(text) = Origin /\ IsShareHash(Tail(text))

\* !generatedCode || generatedCode.startsWith('//') (lines 201 and 210)
NothingToShare(code) == code = <<>> \/ StartsWithSlashes(code)

\* handleCopyClick (lines 200-207), the clipboard accepting the text
CopyClick ==
  /\ phase = "run"
  /\ ~NothingToShare(generatedCode)
  /\ toastTimers < MaxToasts
  /\ clipboard' = generatedCode
  /\ toastMessage' = <<"Copied to clipboard!">>
  /\ showToast' = TRUE
  /\ toastTimers' = toastTimers + 1
  /\ UNCHANGED <<phase, hash, shared, storage, apiKey, prompt, generatedCode,
                 isLoading, error, chats, activeChatId, framework, srcdoc,
                 inflight, errTimers, nextId, requests, okRounds>>

\* handleShareClick (lines 209-223), the clipboard accepting the text
ShareClick ==
  /\ phase = "run"
  /\ toastTimers < MaxToasts
  /\ IF NothingToShare(generatedCode)
       THEN /\ toastMessage' = <<"Nothing to share yet!">>
            /\ UNCHANGED <<clipboard, shared>>
       ELSE /\ clipboard' = ShareUrl(generatedCode)
            /\ shared' = generatedCode
            /\ toastMessage' = <<"Share link copied to clipboard!">>
  /\ showToast' = TRUE
  /\ toastTimers' = toastTimers + 1
  /\ UNCHANGED <<phase, hash, storage, apiKey, prompt, generatedCode, isLoading,
                 error, chats, activeChatId, framework, srcdoc, inflight,
                 errTimers, nextId, requests, okRounds>>

\* the link on the clipboard is opened in the browser: the page is loaded
\* anew with that hash, App is constructed again (lines 44-53), pending timers
\* and fetches of the old page are gone, localStorage and the clipboard stay
OpenLink ==
  /\ phase # "boot"
  /\ IsShareUrl(clipboard)
  /\ phase' = "boot"
  /\ hash' = Tail(clipboard)
  /\ prompt' = <<>>
  /\ generatedCode' = DefaultCode
  /\ isLoading' = FALSE
  /\ error' = Null
  /\ showToast' = FALSE
  /\ toastMessage' = <<>>
  /\ chats' = <<>>
  /\ activeChatId' = NullId
  /\ framework' = "html"
  /\ srcdoc' = <<>>
  /\ inflight' = <<>>
  /\ errTimers' = FALSE
  /\ toastTimers' = 0
  /\ okRounds' = [i \in IdSet |-> 0]
  /\ UNCHANGED <<storage, apiKey, clipboard, shared, nextId, requests>>

\* --------------------------------------------------------- specification
Next ==
  \/ StartupShare
  \/ StartupLoad
  \/ StartupCrash
  \/ \E p \in Prompts : SetPrompt(p)
  \/ \E fw \in Frameworks : SetFramework(fw)
  \/ ErrTimerFire
  \/ ToastTimerFire
  \/ GenerateNoKey
  \/ GenerateEmptyPrompt
  \/ GenerateStart
  \/ \E i \in DOMAIN inflight : \E out \in Outcomes : ResolveOk(i, out)
  \/ \E i \in DOMAIN inflight : \E out \in Outcomes : ResolveFail(i, out)
  \/ NewChat
  \/ \E t \in ExampleChoices : ExamplePrompt(t)
  \/ \E id \in IdSet : SelectChat(id)
  \/ \E id \in IdSet : DeleteChat(id)

Spec == Init /\ [][Next]_vars

\* Sharing: the page opened through a link to any text of ShareTexts, or
\* without a hash and with nothing stored; the code shown is copied or shared
\* and the copied link is opened.
ShareInit ==
  /\ phase = "boot"
  /\ hash \in {NoHash} \cup {SharePrefix \o compressToEncodedURIComponent(x) : x \in ShareTexts}
  /\ storage = <<>>
  /\ apiKey = TRUE
  /\ Fresh
  /\ clipboard = <<>>
  /\ shared = <<>>
  /\ nextId = 1
  /\ requests = 0
  /\ okRounds = [i \in IdSet |-> 0]

ShareNext ==
  \/ StartupShare
  \/ StartupLoad
  \/ CopyClick
  \/ ShareClick
  \/ OpenLink
  \/ ToastTimerFire

ShareSpec == ShareInit /\ [][ShareNext]_vars

\* the browser runs the callback of a pending setTimeout
FairSpec == Spec /\ WF_vars(ErrTimerFire)

\* ------------------------------------------------------------- properties
\* the steps in which a pending request settles
OkStep == \E i \in DOMAIN inflight : \E out \in Outcomes : ResolveOk(i, out)
FailStep == \E i \in DOMAIN inflight : \E out \in Outcomes : ResolveFail(i, out)

Front(h) == SubSeq(h, 1, Len(h) - 1)
Last(h) == h[Len(h)]
IsErrorCode(code) == Len(code) >= 2 /\ code[1] = "//" /\ code[2] = " Error: "

\* C1: whenever activeChatId is set, chats holds a chat with that id; also
\* while a request is pending and the user creates, selects or deletes chats.
C1_ActiveChatExists == activeChatId # NullId => HasChat(chats, activeChatId)

\* a request is pending for a chat deleted meanwhile, and another chat is active
C1_Witness ==
  /\ inflight # <<>>
  /\ ~HasChat(chats, inflight[1].chatId)
  /\ activeChatId # NullId

\* user, assistant, user, assistant, ...
Alternates(h) ==
  /\ Len(h) % 2 = 0
  /\ \A n \in DOMAIN h : h[n].role = IF n % 2 = 1 THEN "user" ELSE "assistant"

\* C2: every history has even length and alternates user/assistant from a
\* user message; a chat created in this run has 2N messages after N
\* successful rounds; only a successful round changes a history.
C2_HistoriesGrowByRounds ==
  /\ [](\A k \in DOMAIN chats :
          /\ Alternates(chats[k].history)
          /\ chats[k].id # StoredId => Len(chats[k].history) = 2 * okRounds[chats[k].id])
  /\ [][(\E k \in DOMAIN chats : \E j \in DOMAIN chats' :
            chats[k].id = chats'[j].id /\ chats[k].history # chats'[j].history)
          => OkStep]_vars

\* a chat created in this run after its second successful round
C2_Witness ==
  \E k \in DOMAIN chats :
    /\ chats[k].id # StoredId
    /\ okRounds[chats[k].id] = 2
    /\ Len(chats[k].history) = 4

\* C3: a failed round (fetch rejected, status not 2xx, content missing or
\* empty) changes no chat, and the chat of the round still has the history it
\* had when the round started; the code shown is an error placeholder, an
\* error message is set and the loading flag is false.
C3_FailedRoundRecordsNothing ==
  [][\A i \in DOMAIN inflight : \A out \in Outcomes :
       ResolveFail(i, out) =>
         /\ chats' = chats
         /\ \A k \in DOMAIN chats' :
              chats'[k].id = inflight[i].chatId =>
                chats'[k].history = Front(inflight[i].history)
         /\ IsErrorCode(generatedCode')
         /\ error' # Null
         /\ ~isLoading']_vars

\* the second round of the active chat ended with status 500
C3_Witness ==
  /\ ~isLoading
  /\ IsErrorCode(generatedCode)
  /\ error = <<"API request failed with status: ", "500", ". ">>
  /\ \E k \in DOMAIN chats : chats[k].id = activeChatId /\ Len(chats[k].history) = 2

\* what C4 says of a successful round, given whether the chat must still exist
RoundRecorded(i, out, mustExist) ==
  LET req == inflight[i]
      cleaned == CleanCode(out.body)
  IN
    /\ generatedCode' = cleaned
    /\ prompt' = <<>>
    /\ IF mustExist \/ HasChat(chats, req.chatId)
         THEN /\ HasChat(chats, req.chatId)
              /\ HasChat(chats', req.chatId)
              /\ Last(req.history).role = "user"
              /\ FindChat(chats', req.chatId).history =
                   FindChat(chats, req.chatId).history
                     \o <<Last(req.history), Message("assistant", cleaned)>>
         ELSE chats' = chats

\* C4 as claimed: on success the chat of the round gains the user message and
\* the assistant message with the cleaned text, the code shown is the cleaned
\* text and the prompt is cleared, whatever the user did during the wait.
C4_AsClaimed ==
  [][\A i \in DOMAIN inflight : \A out \in Outcomes :
       ResolveOk(i, out) => RoundRecorded(i, out, TRUE)]_vars

\* C4 as amended: the same, provided the chat of the round is still on the
\* list when the answer arrives; if it was deleted meanwhile no chat changes.
C4_RoundRecordedIfChatExists ==
  [][\A i \in DOMAIN inflight : \A out \in Outcomes :
       ResolveOk(i, out) => RoundRecorded(i, out, FALSE)]_vars

\* the answer of a round went to its chat while another chat was active
C4_Witness ==
  /\ ~isLoading
  /\ prompt = <<>>
  /\ activeChatId # NullId
  /\ \E k \in DOMAIN chats :
       /\ chats[k].id # activeChatId
       /\ okRounds[chats[k].id] >= 1
       /\ Last(chats[k].history).content = generatedCode
  /\ \E k \in DOMAIN chats :
       chats[k].id = activeChatId /\ CodeOfChat(chats[k]) # generatedCode

\* C5: at most one request is pending; while one is pending the generate
\* button is disabled; a step adds at most one request and a failed round
\* sends none (no retry).
C5_OneRequestAtATime ==
  /\ [](Len(inflight) <= 1 /\ (inflight # <<>> => isLoading))
  /\ [][/\ Len(inflight') <= Len(inflight) + 1
        /\ requests' <= requests + 1
        /\ FailStep => requests' = requests /\ inflight' = <<>>]_vars

\* the second request of the run is pending
C5_Witness == Len(inflight) = 1 /\ isLoading /\ requests = 2

\* C6: the loading flag is true only while a request is pending, and it is
\* false after the step in which the request settles, however it settles.
C6_LoadingClears ==
  /\ [](isLoading => inflight # <<>>)
  /\ [][(OkStep \/ FailStep) => ~isLoading']_vars

\* the fetch of a round was rejected and the flag is down again
C6_Witness ==
  /\ ~isLoading
  /\ inflight = <<>>
  /\ requests >= 1
  /\ error = <<"Failed to fetch">>

\* C7: after every step that changes chats (creating a chat, appending a
\* round, deleting a chat, the last one too) localStorage holds the
\* serialisation of chats, from which JSON.parse restores those chats in order.
C7_StorageFollowsChats ==
  [][(phase = "run" /\ chats' # chats) =>
       /\ storage' = Stringify(chats')
       /\ ParseJSON(storage') = [kind |-> "array", val |-> chats']]_vars

\* the last chat was deleted and the stored list is empty
C7_Witness == phase = "run" /\ nextId > 1 /\ chats = <<>> /\ storage = Stringify(<<>>)

\* C8: after startup without a share hash, with nothing stored or with stored
\* text that does not parse, the App runs with no chats and no active chat.
C8_MalformedStorageLoadsEmpty ==
  (/\ phase # "boot"
   /\ ~IsShareHash(hash)
   /\ storage = <<>> \/ ParseJSON(storage).kind = "error")
  => (phase = "run" /\ chats = <<>> /\ activeChatId = NullId)

\* C9: deleting a chat removes that chat alone; if it was active the active
\* pointer is cleared and the code shown is the new-chat placeholder, else
\* the active pointer and the code shown stay.
C9_DeleteEffects ==
  [][\A id \in IdSet :
       DeleteChat(id) =>
         /\ \E k \in DOMAIN chats : chats[k].id = id /\ chats' = RemoveAt(chats, k)
         /\ ~HasChat(chats', id)
         /\ IF activeChatId = id
              THEN activeChatId' = NullId /\ generatedCode' = NewChatCode
              ELSE activeChatId' = activeChatId /\ generatedCode' = generatedCode]_vars

\* of two chats created in this run one was deleted and the other is active
\* and shown
C9_Witness ==
  /\ nextId = 3
  /\ Len(chats) = 1
  /\ activeChatId = chats[1].id
  /\ HasAssistant(chats[1].history)
  /\ generatedCode = CodeOfChat(chats[1])

\* C10: selecting a chat makes it active, shows the content of the last
\* assistant message of its history if there is one, and changes no chat.
C10_SelectShowsLastAnswer ==
  [][\A id \in IdSet :
       SelectChat(id) =>
         /\ activeChatId' = id
         /\ chats' = chats
         /\ LET h == FindChat(chats, id).history IN
              HasAssistant(h) =>
                \E n \in DOMAIN h :
                  /\ h[n].role = "assistant"
                  /\ \A m \in (n + 1)..Len(h) : h[m].role # "assistant"
                  /\ generatedCode' = h[n].content]_vars

\* the stored chat, with two different answers, was selected
C10_Witness ==
  /\ activeChatId = StoredId
  /\ StoredChat.history[2].content # StoredChat.history[4].content
  /\ generatedCode = StoredChat.history[4].content

\* p is what q starts with
IsPrefix(p, q) == Len(p) <= Len(q) /\ SubSeq(q, 1, Len(p)) = p

\* C11: a generate action with no chat active puts a new chat at the front of
\* chats and makes it active; its title is the prompt when the prompt has at
\* most 30 characters, else the first 30 characters and "..."; no step changes
\* the title of a chat.
C11_TitleFromPrompt ==
  /\ [][(GenerateStart /\ activeChatId = NullId) =>
          /\ Len(chats') = Len(chats) + 1
          /\ Tail(chats') = chats
          /\ ~HasChat(chats, chats'[1].id)
          /\ activeChatId' = chats'[1].id
          /\ chats'[1].history = <<>>
          /\ LET title == chats'[1].title IN
               IF CharLen(prompt) <= TitleLimit
                 THEN title = prompt
                 ELSE /\ Last(title) = "..."
                      /\ CharLen(Front(title)) = TitleLimit
                      /\ IsPrefix(Front(title), prompt)]_vars
  /\ [][\A k \in DOMAIN chats : \A j \in DOMAIN chats' :
          chats[k].id = chats'[j].id => chats[k].title = chats'[j].title]_vars

\* a chat titled by a prompt of exactly 30 characters and a chat titled by a
\* cut example prompt, the first with a round appended since
C11_Witness ==
  \E k, j \in DOMAIN chats :
    /\ chats[k].title = ThirtyPrompt
    /\ Len(chats[k].history) = 2
    /\ chats[j].title = <<Template1Head, "...">>

EmptyPromptError == <<"Please enter a prompt!">>
NoKeyError ==
  <<"API Key is not configured. The app must be deployed with an environment variable.">>

\* C12: a generate action without an API key or with an empty prompt sends
\* no request and leaves chats, the active chat, the code shown, the loading
\* flag, the prompt and the storage as they were; it sets an error message,
\* and the message for the empty prompt is cleared again by its timer.
C12_ValidationOnlyReports ==
  /\ [][(GenerateNoKey \/ GenerateEmptyPrompt) =>
          /\ requests' = requests
          /\ inflight' = inflight
          /\ chats' = chats
          /\ activeChatId' = activeChatId
          /\ generatedCode' = generatedCode
          /\ isLoading' = isLoading
          /\ storage' = storage
          /\ prompt' = prompt
          /\ srcdoc' = srcdoc
          /\ error' = IF apiKey THEN EmptyPromptError ELSE NoKeyError]_vars
  /\ [][ErrTimerFire => error' = Null]_vars
  /\ (error = EmptyPromptError) ~> (error # EmptyPromptError)

\* the empty-prompt message is shown over a chat with a recorded round, its
\* timer pending
C12_Witness ==
  /\ error = EmptyPromptError
  /\ errTimers
  /\ activeChatId # NullId
  /\ \E k \in DOMAIN chats : chats[k].id = activeChatId /\ generatedCode = CodeOfChat(chats[k])
  /\ HasAssistant(FindChat(chats, activeChatId).history)

\* C13: the mount effects of a page opened with a '#/share/<token>' hash do
\* not read the saved chats: no chat is listed or active and the storage is
\* untouched; a token that decompresses is shown as the code, with a toast; a
\* token that does not leaves the initial code, shows no toast and no error,
\* and the App runs.
C13_ShareStartup ==
  [][(phase = "boot" /\ IsShareHash(hash) /\ phase' # "boot") =>
       /\ phase' = "run"
       /\ chats' = <<>>
       /\ activeChatId' = NullId
       /\ storage' = storage
       /\ error' = Null
       /\ prompt' = <<>>
       /\ LET text == decompressFromEncodedURIComponent(ShareToken(hash)) IN
            IF text # <<>>
              THEN generatedCode' = text /\ showToast' /\ srcdoc' = text
              ELSE generatedCode' = DefaultCode /\ ~showToast' /\ srcdoc' = DefaultCode]_vars

\* opened through a share link while chats are saved: the shared text is
\* shown and no chat is listed
C13_Witness ==
  /\ phase = "run"
  /\ hash = GoodShareHash
  /\ storage = Stringify(<<StoredChat>>)
  /\ generatedCode = SharedText
  /\ showToast
  /\ chats = <<>>
  /\ activeChatId = NullId

\* C15: the messages sent for a round are the system message of the
\* framework selected at the generate action, the history its chat has when
\* the action starts (none for a chat the action creates) and a user message
\* with the prompt; the request of round k+1 of a chat created in this run
\* therefore carries the 2k messages of its rounds 1..k.
C15_PayloadIsHistoryPlusPrompt ==
  [][GenerateStart =>
       LET sent == PayloadMessages(Last(inflight'))
           base == IF activeChatId = NullId THEN <<>>
                   ELSE FindChat(chats, activeChatId).history
       IN
         /\ Len(inflight') = Len(inflight) + 1
         /\ Last(inflight').chatId = activeChatId'
         /\ sent = <<Message("system", systemPrompts(framework))>>
                     \o base \o <<Message("user", prompt)>>
         /\ activeChatId' # StoredId =>
              Len(sent) = 2 * okRounds[activeChatId'] + 2]_vars

\* the request of the second round of a chat is pending, sent with another
\* framework than the first
C15_Witness ==
  /\ Len(inflight) = 1
  /\ inflight[1].chatId # StoredId
  /\ okRounds[inflight[1].chatId] = 1
  /\ Len(PayloadMessages(inflight[1])) = 4
  /\ PayloadMessages(inflight[1])[1].content = systemPrompts("react")
  /\ PayloadMessages(inflight[1])[3].role = "assistant"

\* C16: once the App runs, after every step the document of the preview frame
\* is the code shown when the framework is 'html' and the fixed 'preview
\* unavailable' document otherwise.
C16_PreviewFollowsCode ==
  phase = "run" =>
    srcdoc = IF framework = "html" THEN generatedCode ELSE PreviewUnavailable

\* an answer is shown while the framework is 'react': the frame holds the
\* 'preview unavailable' document
C16_Witness ==
  /\ framework = "react"
  /\ inflight = <<>>
  /\ \E a \in Answers : generatedCode = CleanCode(a)
  /\ srcdoc = PreviewUnavailable
  /\ srcdoc # generatedCode

\* C17: while the loading flag is true the code shown is the 'generating'
\* placeholder, whatever the user does during the wait.
C17_GeneratingShownWhileLoading ==
  isLoading => \E fw \in Frameworks : generatedCode = GeneratingCode(fw)

\* the chats JSON.parse reads from a stored text (none when it is no array)
StoredChats(text) ==
  IF text # <<>> /\ ParseJSON(text).kind = "array" THEN ParseJSON(text).val ELSE <<>>

\* C18: a chat held in the storage leaves the storage only in the step that
\* deletes that chat.
C18_StoredChatsLeaveByDeleteOnly ==
  [][\A id \in IdSet :
       (HasChat(StoredChats(storage), id) /\ ~HasChat(StoredChats(storage'), id))
         => DeleteChat(id)]_vars

\* C19: when no request is pending and the active chat has an assistant
\* message, the code shown is the content of the last assistant message of
\* that chat, or an error placeholder.
C19_CodeBelongsToActiveChat ==
  (/\ inflight = <<>>
   /\ activeChatId # NullId
   /\ HasChat(chats, activeChatId)
   /\ HasAssistant(FindChat(chats, activeChatId).history))
  => \/ generatedCode = CodeOfChat(FindChat(chats, activeChatId))
     \/ IsErrorCode(generatedCode)

\* C20: an error message other than the empty-prompt one (that of a failed
\* round, that of the missing API key) stays until the next generate action:
\* no other step, the timer of an earlier empty-prompt attempt in particular,
\* removes it.
C20_TimerClearsOwnErrorOnly ==
  [][(error # Null /\ error # EmptyPromptError /\ error' # error)
       => (GenerateStart \/ GenerateEmptyPrompt \/ GenerateNoKey)]_vars

\* the texts App itself puts into the editor in place of generated code
IsPlaceholder(code) ==
  \/ code \in {DefaultCode, NewChatCode, EmptyChatCode}
  \/ \E fw \in Frameworks : code = GeneratingCode(fw)
  \/ IsErrorCode(code)

\* the page was opened through the link that is on the clipboard
OpenedFromClipboard == clipboard = <<Origin>> \o hash

\* C14: sharing any generated code x that is shown puts a link on the
\* clipboard, and the page opened through that link shows exactly x.
C14_ShareRoundTrip ==
  /\ [][(ShareClick /\ generatedCode # <<>> /\ ~IsPlaceholder(generatedCode)) =>
          /\ IsShareUrl(clipboard')
          /\ shared' = generatedCode]_vars
  /\ [][(phase = "boot" /\ phase' = "run" /\ shared # <<>> /\ OpenedFromClipboard) =>
          generatedCode' = shared]_vars

\* the same for the texts that do not start with '//' (for those that do,
\* handleShareClick copies nothing)
ShareRoundTripUnlessComment ==
  /\ [][(ShareClick /\ generatedCode # <<>> /\ ~StartsWithSlashes(generatedCode)) =>
          /\ IsShareUrl(clipboard')
          /\ shared' = generatedCode]_vars
  /\ [][(ShareClick /\ StartsWithSlashes(generatedCode)) =>
          UNCHANGED <<clipboard, shared>>]_vars
  /\ [][(phase = "boot" /\ phase' = "run" /\ shared # <<>> /\ OpenedFromClipboard) =>
          generatedCode' = shared]_vars

\* a text with markup and a line break was shared and the page opened through
\* the copied link shows it
ShareRoundTripWitness ==
  /\ phase = "run"
  /\ OpenedFromClipboard
  /\ shared = <<"<p", "\n">>
  /\ generatedCode = shared
  /\ toastMessage = <<"Shared code loaded!">>

====
